---- MODULE Spec2Model ----
(***************************************************************************)
(* Model of the price-extraction pipeline: scraper.fetch_ads,              *)
(* storage.save_to_csv / load_and_sort_by_price,                           *)
(* download_images.download_images and main.main.                          *)
(*                                                                         *)
(* Python text is a TLA+ string; Len, \o and SubSeq work on strings, so a  *)
(* character is a string of length one.  A Python value that may stop      *)
(* being text (after pandas has read it back, or as it arrives in the      *)
(* upstream JSON) is a tagged record, see PyStr .. PyNone.                 *)
(***************************************************************************)
EXTENDS Integers, Sequences, FiniteSets, TLC

VARIABLES
    pc,        \* position of the operation / of main
    items,     \* the record sequence handed to the operation under study
    tie,       \* order quicksort leaves equal keys in, for this run
    fs,        \* the tabular files: path -> sequence of text lines
    ret,       \* value returned by the last operation
    err,       \* exception that left the last operation, or "none"
    outs,      \* outcome of the image request of each record
    imgdir,    \* the image directory: file name -> content
    writes,    \* every open(filepath, "wb") done, in order
    http,      \* every HTTP GET attempted, in order
    env,       \* raw value of the environment variable SERPAPI_KEY
    api_key,   \* api_key argument of fetch_ads
    term,      \* search term
    upstream,  \* what the search API answers to the one request
    argv,      \* command line of main
    trace,     \* steps main has performed, in order
    stdout     \* the ranked lines main has printed

vars == <<pc, items, tie, fs, ret, err, outs, imgdir, writes, http,
          env, api_key, term, upstream, argv, trace, stdout>>

-----------------------------------------------------------------------------
(* Bounds of the model *)

MaxRows == 2
MaxItems == 2
MaxResults == 2
OutPeriod == 2
MainOutPeriod == 1

-----------------------------------------------------------------------------
(* Text helpers: Python str methods and the two regular expressions *)

\* the value f itself; the comparison makes TLC compute a function once
\* instead of at every application
Eager(f) == IF f = f THEN f ELSE f

Ch(s, i) == SubSeq(s, i, i)

Rest(s, i) == SubSeq(s, i, Len(s))

Digits == {"0", "1", "2", "3", "4", "5", "6", "7", "8", "9"}

Lower == {"a", "b", "c", "d", "e", "f", "g", "h", "i", "j", "k", "l", "m",
          "n", "o", "p", "q", "r", "s", "t", "u", "v", "w", "x", "y", "z"}

Upper == {"A", "B", "C", "D", "E", "F", "G", "H", "I", "J", "K", "L", "M",
          "N", "O", "P", "Q", "R", "S", "T", "U", "V", "W", "X", "Y", "Z"}

IsDigit(c) == c \in Digits

Min(a, b) == IF a <= b THEN a ELSE b

RECURSIVE Pow10(_)
Pow10(k) == IF k = 0 THEN 1 ELSE 10 * Pow10(k - 1)

DigitVal(c) ==
    CASE c = "0" -> 0 [] c = "1" -> 1 [] c = "2" -> 2 [] c = "3" -> 3
      [] c = "4" -> 4 [] c = "5" -> 5 [] c = "6" -> 6 [] c = "7" -> 7
      [] c = "8" -> 8 [] c = "9" -> 9

DigitCh(d) ==
    CASE d = 0 -> "0" [] d = 1 -> "1" [] d = 2 -> "2" [] d = 3 -> "3"
      [] d = 4 -> "4" [] d = 5 -> "5" [] d = 6 -> "6" [] d = 7 -> "7"
      [] d = 8 -> "8" [] d = 9 -> "9"

\* int(s) for a text of digits
RECURSIVE ParseNat(_)
ParseNat(s) ==
    IF Len(s) = 0 THEN 0
    ELSE 10 * ParseNat(SubSeq(s, 1, Len(s) - 1)) + DigitVal(Ch(s, Len(s)))

\* str(n) for n >= 0
RECURSIVE NatToStr(_)
NatToStr(n) ==
    IF n < 10 THEN DigitCh(n) ELSE NatToStr(n \div 10) \o DigitCh(n % 10)

\* concatenation of the texts ps[lo..hi], by halves
RECURSIVE JoinRange(_, _, _)
JoinRange(ps, lo, hi) ==
    IF lo > hi THEN ""
    ELSE IF lo = hi THEN ps[lo]
    ELSE LET mid == (lo + hi) \div 2
         IN  JoinRange(ps, lo, mid) \o JoinRange(ps, mid + 1, hi)

Join(ps) == JoinRange(ps, 1, Len(ps))

\* s.replace(old, new) for an old of one or two characters: the leftmost,
\* non-overlapping occurrences.  An occurrence of a two-character old
\* counts when an even number of occurrences lie directly before it.
Replace(s, old, new) ==
    LET n == Len(s)
        w == Len(old)
        at(i) == i >= 1 /\ i + w - 1 <= n /\ SubSeq(s, i, i + w - 1) = old
        chain(i) == Cardinality({k \in 1..(i - 1) :
                                   \A j \in (i - k)..(i - 1) : at(j)})
        hit(i) == at(i) /\ (w = 1 \/ chain(i) % 2 = 0)
    IN  Join([i \in 1..n |->
                IF hit(i) THEN new
                ELSE IF w = 2 /\ hit(i - 1) THEN ""
                ELSE Ch(s, i)])

\* number of leading digits of s
DigitRun(s) ==
    Cardinality({k \in 1..Len(s) : \A j \in 1..k : IsDigit(Ch(s, j))})

AllDigits(s) == Len(s) > 0 /\ DigitRun(s) = Len(s)

HasDigit(s) == \E i \in 1..Len(s) : IsDigit(Ch(s, i))

-----------------------------------------------------------------------------
(* Python values.  Listing fields are text when a record is created; pandas *)
(* may hand back an int, a float or NaN, and the upstream JSON may carry a *)
(* number or null.  A float is n / 10^e with no trailing zero in n.         *)

PyStr(s) == [t |-> "str", s |-> s]

PyInt(n) == [t |-> "int", n |-> n]

PyFloat(n, e) == [t |-> "float", n |-> n, e |-> e]

PyNaN == [t |-> "nan"]

PyNone == [t |-> "none"]

\* bool(v): None, "", 0 and 0.0 are falsy; NaN is truthy
Truthy(v) ==
    CASE v.t = "str" -> v.s # ""
      [] v.t = "int" -> v.n # 0
      [] v.t = "float" -> v.n # 0
      [] v.t = "nan" -> TRUE
      [] OTHER -> FALSE

\* a or b
PyOr(a, b) == IF Truthy(a) THEN a ELSE b

RECURSIVE NormFloat(_, _)
NormFloat(n, e) ==
    IF e > 0 /\ n % 10 = 0 THEN NormFloat(n \div 10, e - 1) ELSE PyFloat(n, e)

\* left-pad the text of n with zeros to width w
RECURSIVE ZeroPad(_, _)
ZeroPad(s, w) == IF Len(s) >= w THEN s ELSE ZeroPad("0" \o s, w)

\* repr(float): shortest text, always with a fractional part
FloatRepr(v) ==
    IF v.e = 0 THEN NatToStr(v.n) \o ".0"
    ELSE NatToStr(v.n \div Pow10(v.e)) \o "."
         \o ZeroPad(NatToStr(v.n % Pow10(v.e)), v.e)

-----------------------------------------------------------------------------
(* The tabular store: pandas DataFrame.to_csv and read_csv *)

Fields == <<"titulo", "preco", "url", "loja", "imagem">>

FieldSet == {Fields[i] : i \in 1..Len(Fields)}

\* text pandas writes for one cell: NaN and None become the empty na_rep
CellText(v) ==
    CASE v.t = "str" -> v.s
      [] v.t = "int" -> NatToStr(v.n)
      [] v.t = "float" -> FloatRepr(v)
      [] OTHER -> ""

\* csv.QUOTE_MINIMAL: quote a field holding the delimiter, a quote or a
\* line break, doubling the quotes inside
NeedsQuote(s) == \E i \in 1..Len(s) : Ch(s, i) \in {",", "\"", "\n", "\r"}

QuoteField(s) ==
    IF NeedsQuote(s) THEN "\"" \o Replace(s, "\"", "\"\"") \o "\"" ELSE s

RECURSIVE JoinFields(_)
JoinFields(fs_) ==
    IF Len(fs_) = 0 THEN ""
    ELSE IF Len(fs_) = 1 THEN QuoteField(fs_[1])
    ELSE QuoteField(fs_[1]) \o "," \o JoinFields(Tail(fs_))

\* df.to_csv(filepath, index=False): header line, then one line per record
ToCsv(its) ==
    <<JoinFields(Fields)>>
    \o [i \in 1..Len(its) |->
          JoinFields([c \in 1..Len(Fields) |-> CellText(its[i][Fields[c]])])]

\* the tokenizer of read_csv on one line.  A comma separates two fields
\* when an even number of quotes precedes it; a field that starts with a
\* quote loses the enclosing quotes and has its doubled quotes halved.
Quotes(s, i) == Cardinality({j \in 1..(i - 1) : Ch(s, j) = "\""})

Unquote(f) ==
    IF Len(f) >= 2 /\ Ch(f, 1) = "\""
    THEN Replace(SubSeq(f, 2, Len(f) - 1), "\"\"", "\"")
    ELSE f

ParseLine(line) ==
    LET seps == {i \in 1..Len(line) :
                   Ch(line, i) = "," /\ Quotes(line, i) % 2 = 0}
        n == Cardinality(seps)
        sep(k) == IF k = 0 THEN 0
                  ELSE IF k = n + 1 THEN Len(line) + 1
                  ELSE CHOOSE i \in seps :
                         Cardinality({j \in seps : j < i}) = k - 1
    IN  [k \in 1..(n + 1) |->
           Unquote(SubSeq(line, sep(k - 1) + 1, sep(k) - 1))]

\* the default na_values of read_csv
NAValues == {"", "#N/A", "#N/A N/A", "#NA", "-1.#IND", "-1.#QNAN", "-NaN",
             "-nan", "1.#IND", "1.#QNAN", "<NA>", "N/A", "NA", "NULL", "NaN",
             "None", "n/a", "nan", "null"}

IsNA(s) == s \in NAValues

IsIntText(s) == AllDigits(s)

\* digits '.' digits with a digit on at least one side
IsFloatText(s) ==
    LET d == DigitRun(s) IN
    /\ d < Len(s)
    /\ Ch(s, d + 1) = "."
    /\ DigitRun(Rest(s, d + 2)) = Len(s) - d - 1
    /\ Len(s) > 1

IsNumText(s) == IsIntText(s) \/ IsFloatText(s)

\* float(s) for the texts IsNumText accepts
TextToFloat(s) ==
    LET d == DigitRun(s) IN
    IF d = Len(s) THEN PyFloat(ParseNat(s), 0)
    ELSE NormFloat(ParseNat(SubSeq(s, 1, d) \o Rest(s, d + 2)), Len(s) - d - 1)

\* dtype read_csv infers for a column from the texts of its cells
ColumnType(cells) ==
    LET n == Len(cells)
        present == {i \in 1..n : ~IsNA(cells[i])}
    IN  IF present = {} THEN "float64"
        ELSE IF \A i \in present : IsIntText(cells[i])
             THEN IF present = 1..n THEN "int64" ELSE "float64"
             ELSE IF \A i \in present : IsNumText(cells[i])
                  THEN "float64"
                  ELSE "object"

\* value of one cell of a column of the given dtype
CellValue(s, dtype) ==
    IF IsNA(s) THEN PyNaN
    ELSE CASE dtype = "int64" -> PyInt(ParseNat(s))
           [] dtype = "float64" -> TextToFloat(s)
           [] OTHER -> PyStr(s)

\* pd.read_csv(filepath) followed by to_dict(orient="records"): the first
\* line names the columns, every other line is a row
ReadCsv(lines) ==
    LET header == ParseLine(lines[1])
        rows == Eager([i \in 1..(Len(lines) - 1) |-> ParseLine(lines[i + 1])])
        col(c) == [i \in 1..Len(rows) |-> rows[i][c]]
        dtype == Eager([c \in 1..Len(header) |-> ColumnType(col(c))])
        idx(name) == CHOOSE c \in 1..Len(header) : header[c] = name
    IN  [i \in 1..Len(rows) |->
           [name \in {header[c] : c \in 1..Len(header)} |->
              CellValue(rows[i][idx(name)], dtype[idx(name)])]]

-----------------------------------------------------------------------------
(* storage.py *)

\* a sort key: positive infinity, or the decimal n / 10^e
KeyInf == [inf |-> TRUE, n |-> 0, e |-> 0]

KeyNum(n, e) == [inf |-> FALSE, n |-> n, e |-> e]

KeyLT(a, b) ==
    /\ ~a.inf
    /\ (b.inf \/ a.n * Pow10(b.e) < b.n * Pow10(a.e))

KeyEQ(a, b) == ~KeyLT(a, b) /\ ~KeyLT(b, a)

\* re.search(r"\d+(?:\.\d+)?", text): the leftmost match, "" when none
FirstNumber(text) ==
    LET ds == {i \in 1..Len(text) : IsDigit(Ch(text, i))} IN
    IF ds = {} THEN ""
    ELSE LET start == CHOOSE i \in ds : \A j \in ds : i <= j
             t == Rest(text, start)
             d == DigitRun(t)
             f == DigitRun(Rest(t, d + 2))
         IN  IF d < Len(t) /\ Ch(t, d + 1) = "." /\ f > 0
             THEN SubSeq(t, 1, d + 1 + f)
             ELSE SubSeq(t, 1, d)

PriceToFloat(preco) ==
    IF ~Truthy(preco) \/ preco.t # "str" THEN KeyInf
    ELSE LET text == Replace(Replace(Replace(Replace(preco.s,
                        "R$", ""), " ", ""), ".", ""), ",", ".")
             m == FirstNumber(text)
         IN  IF m = "" THEN KeyInf
             ELSE LET f == TextToFloat(m) IN KeyNum(f.n, f.e)

\* sort_values keeps its default kind="quicksort", which leaves the order
\* of rows with equal keys open; the model takes the two extreme outcomes,
\* file order kept and file order reversed
TieOrders == {"kept", "reversed"}

\* df.sort_values("preco_num", ascending=True): the permutation of the row
\* numbers, position -> row
SortOrder(keys, tieorder) ==
    LET n == Len(keys)
        before(i, j) ==
            \/ KeyLT(keys[i], keys[j])
            \/ /\ KeyEQ(keys[i], keys[j])
               /\ IF tieorder = "kept" THEN i < j ELSE i > j
        pos(i) == 1 + Cardinality({j \in 1..n : before(j, i)})
    IN  [k \in 1..n |-> CHOOSE i \in 1..n : pos(i) = k]

\* the mutant of save_to_csv: the file is written before the emptiness test
SaveToCsvWriteFirst(its, filepath, files) ==
    IF Len(its) = 0
    THEN [fs |-> [p \in DOMAIN files \cup {filepath} |->
                    IF p = filepath THEN <<"">> ELSE files[p]],
          err |-> "ValueError"]
    ELSE [fs |-> [p \in DOMAIN files \cup {filepath} |->
                    IF p = filepath THEN ToCsv(its) ELSE files[p]],
          err |-> "none"]

\* save_to_csv(items, filepath): the files afterwards and the exception
SaveToCsv(its, filepath, files) ==
    IF Len(its) = 0
    THEN [fs |-> files, err |-> "ValueError"]
    ELSE [fs |-> [p \in DOMAIN files \cup {filepath} |->
                    IF p = filepath THEN ToCsv(its) ELSE files[p]],
          err |-> "none"]

\* load_and_sort_by_price(filepath): the returned records and the exception
LoadAndSortByPrice(filepath, files, tieorder) ==
    IF filepath \notin DOMAIN files
    THEN [ret |-> <<>>, err |-> "FileNotFoundError"]
    ELSE LET df == Eager(ReadCsv(files[filepath]))
             preco_num == Eager([i \in 1..Len(df) |->
                                   PriceToFloat(df[i]["preco"])])
             order == Eager(SortOrder(preco_num, tieorder))
         IN  [ret |-> [k \in 1..Len(df) |-> df[order[k]]], err |-> "none"]

-----------------------------------------------------------------------------
(* download_images.py *)

\* dict.get(key): None when the key is missing
Get(d, k) == IF k \in DOMAIN d THEN d[k] ELSE PyNone

SlugChars == Lower \cup Upper \cup Digits \cup {"_", "-"}

\* re.sub(r"[^a-zA-Z0-9_-]+", "_", name): the first character of every
\* run of other characters becomes "_", the rest of the run disappears
SubRuns(name) ==
    Join([i \in 1..Len(name) |->
            IF Ch(name, i) \in SlugChars THEN Ch(name, i)
            ELSE IF i = 1 \/ Ch(name, i - 1) \in SlugChars THEN "_"
            ELSE ""])

\* s.strip(chars): drop the leading and the trailing run of chars
Strip(s, chars) ==
    LET n == Len(s)
        lead == Cardinality({k \in 1..n : \A j \in 1..k : Ch(s, j) \in chars})
        trail == Cardinality({k \in 1..n :
                                \A j \in (n - k + 1)..n : Ch(s, j) \in chars})
    IN  IF lead = n THEN "" ELSE SubSeq(s, lead + 1, n - trail)

Slugify(name, maxlen) ==
    LET base == Strip(SubRuns(name), {"_"})
        named == IF base = "" THEN "imagem" ELSE base
    IN  SubSeq(named, 1, Min(maxlen, Len(named)))

SlugMaxLen == 60

\* file name of the idx-th record: its title, or produto_<idx> when the
\* title is empty or missing
FileName(item, idx) ==
    LET t == Get(item, "titulo")
        title == IF Truthy(t) THEN t.s ELSE "produto_" \o NatToStr(idx)
    IN  Slugify(title, SlugMaxLen) \o ".jpg"

\* what one image request can end in
Outcomes ==
    {[kind |-> "timeout", body |-> ""],
     [kind |-> "connection", body |-> ""],
     [kind |-> "status", body |-> ""],
     [kind |-> "ok", body |-> "JFIF"]}

\* a record without image URL causes no request, hence no outcome
NoRequest == [kind |-> "none", body |-> ""]

\* the outcome sequences for the records its: every pattern of period
\* outcomes, repeated along the records that have an image URL
OutcomeSeqs(its, period) ==
    LET n == Len(its)
        w == Min(n, period)
    IN  IF n = 0 THEN {<<>>}
        ELSE {[i \in 1..n |->
                 IF Truthy(Get(its[i], "imagem"))
                 THEN p[((i - 1) % w) + 1]
                 ELSE NoRequest] : p \in [1..w -> Outcomes]}

\* open(filepath, "wb") and the write: the file is created or replaced
WriteFile(st, name, content) ==
    [st EXCEPT !.files = Eager([f \in DOMAIN st.files \cup {name} |->
                                  IF f = name THEN content ELSE st.files[f]]),
               !.writes = Append(st.writes, [name |-> name, content |-> content])]

\* the mutant of the loop body: no except clause, a failed request leaves
\* the function
DownloadOneNoExcept(st, item, idx, out) ==
    LET image_url == PyOr(Get(item, "imagem"), PyStr(""))
        t == Get(item, "titulo")
    IN  IF Truthy(t) /\ t.t # "str" THEN [st EXCEPT !.err = "TypeError"]
        ELSE IF ~Truthy(image_url) THEN WriteFile(st, FileName(item, idx), "")
        ELSE LET asked == [st EXCEPT !.http = Append(st.http,
                                [url |-> image_url, rec |-> idx])]
             IN  IF image_url.t = "str" /\ out.kind = "ok"
                 THEN WriteFile(asked, FileName(item, idx), out.body)
                 ELSE [asked EXCEPT !.err = "RequestException"]

\* the mutant of the loop body: a failed request is retried once
DownloadOneRetry(st, item, idx, out) ==
    LET image_url == PyOr(Get(item, "imagem"), PyStr(""))
        t == Get(item, "titulo")
    IN  IF Truthy(t) /\ t.t # "str" THEN [st EXCEPT !.err = "TypeError"]
        ELSE IF ~Truthy(image_url) THEN WriteFile(st, FileName(item, idx), "")
        ELSE LET asked == [st EXCEPT !.http = Append(st.http,
                                [url |-> image_url, rec |-> idx])]
             IN  IF image_url.t = "str" /\ out.kind = "ok"
                 THEN WriteFile(asked, FileName(item, idx), out.body)
                 ELSE WriteFile([asked EXCEPT !.http = Append(asked.http,
                                    [url |-> image_url, rec |-> idx])],
                                FileName(item, idx), "")

\* the mutant of the loop body: a file that exists is not written again
DownloadOneKeepFirst(st, item, idx, out) ==
    LET image_url == PyOr(Get(item, "imagem"), PyStr(""))
        t == Get(item, "titulo")
        keep(s, content) ==
            IF FileName(item, idx) \in DOMAIN s.files THEN s
            ELSE WriteFile(s, FileName(item, idx), content)
    IN  IF Truthy(t) /\ t.t # "str" THEN [st EXCEPT !.err = "TypeError"]
        ELSE IF ~Truthy(image_url) THEN keep(st, "")
        ELSE LET asked == [st EXCEPT !.http = Append(st.http,
                                [url |-> image_url, rec |-> idx])]
             IN  IF image_url.t = "str" /\ out.kind = "ok"
                 THEN keep(asked, out.body)
                 ELSE keep(asked, "")

\* one pass of the for loop of download_images on the idx-th record.  A
\* title that is not text makes re.sub raise outside the try block; an
\* image value that is not text makes requests.get raise inside it.
DownloadOne(st, item, idx, out) ==
    LET image_url == PyOr(Get(item, "imagem"), PyStr(""))
        t == Get(item, "titulo")
    IN  IF Truthy(t) /\ t.t # "str" THEN [st EXCEPT !.err = "TypeError"]
        ELSE IF ~Truthy(image_url) THEN WriteFile(st, FileName(item, idx), "")
        ELSE LET asked == [st EXCEPT !.http = Append(st.http,
                                [url |-> image_url, rec |-> idx])]
             IN  IF image_url.t = "str" /\ out.kind = "ok"
                 THEN WriteFile(asked, FileName(item, idx), out.body)
                 ELSE WriteFile(asked, FileName(item, idx), "")

RECURSIVE DownloadLoop(_, _, _, _)
DownloadLoop(st, its, os, idx) ==
    IF idx > Len(its) \/ st.err # "none" THEN st
    ELSE DownloadLoop(Eager(DownloadOne(st, its[idx], idx, os[idx])),
                      its, os, idx + 1)

\* download_images(items, directory): os.makedirs(exist_ok=True), then the
\* loop; dir is [exists, files], the result adds the writes, the requests
\* and the exception
DownloadImages(its, os, dir) ==
    DownloadLoop([exists |-> TRUE, files |-> dir.files, writes |-> <<>>,
                  http |-> <<>>, err |-> "none"], its, os, 1)

-----------------------------------------------------------------------------
(* scraper.py *)

SERPAPI_ENDPOINT == "https://serpapi.com/search.json"

Whitespace == {" ", "\t", "\n", "\r"}

\* SERPAPI_KEY = os.getenv("SERPAPI_KEY", "").strip(); e is None when unset
SerpapiKey(e) == IF e.t = "none" THEN "" ELSE Strip(e.s, Whitespace)

Listing(titulo, preco, url, loja, imagem) ==
    [titulo |-> titulo, preco |-> preco, url |-> url, loja |-> loja,
     imagem |-> imagem]

exemplos ==
    <<Listing(PyStr("Geladeira Consul Frost Free 340 litros"),
              PyStr("R$ 1.899,00"),
              PyStr("https://www.lojaexemplo.com/produto2"),
              PyStr("Loja Exemplo 2"),
              PyStr("https://via.placeholder.com/150?text=Produto2")),
      Listing(PyStr("Geladeira Brastemp Frost Free Duplex 375 litros"),
              PyStr("R$ 2.199,00"),
              PyStr("https://www.lojaexemplo.com/produto1"),
              PyStr("Loja Exemplo 1"),
              PyStr("https://via.placeholder.com/150?text=Produto1")),
      Listing(PyStr("Geladeira Electrolux Frost Free Inverse 454 litros"),
              PyStr("R$ 3.299,00"),
              PyStr("https://www.lojaexemplo.com/produto3"),
              PyStr("Loja Exemplo 3"),
              PyStr("https://via.placeholder.com/150?text=Produto3")),
      Listing(PyStr("Geladeira Samsung Side by Side 501 litros"),
              PyStr("R$ 4.499,00"),
              PyStr("https://www.lojaexemplo.com/produto4"),
              PyStr("Loja Exemplo 4"),
              PyStr("https://via.placeholder.com/150?text=Produto4")),
      Listing(PyStr("Geladeira LG Smart Inverter 437 litros"),
              PyStr("R$ 3.999,00"),
              PyStr("https://www.lojaexemplo.com/produto5"),
              PyStr("Loja Exemplo 5"),
              PyStr("https://via.placeholder.com/150?text=Produto5"))>>

SampleRepeat == 5

\* _sample_data(): the five examples, five times over
SampleData ==
    [k \in 1..(SampleRepeat * Len(exemplos)) |->
       exemplos[((k - 1) % Len(exemplos)) + 1]]

\* n >= 0 hundredths shown as f"{x:,.2f}"
RECURSIVE GroupThousands(_)
GroupThousands(s) ==
    IF Len(s) <= 3 THEN s
    ELSE GroupThousands(SubSeq(s, 1, Len(s) - 3)) \o ","
         \o SubSeq(s, Len(s) - 2, Len(s))

\* a number rounded to hundredths (the model's numbers have at most two
\* decimals, so the rounding of the last branch is never a tie)
Cents(v) ==
    IF v.t = "int" THEN v.n * 100
    ELSE IF v.e <= 2 THEN v.n * Pow10(2 - v.e)
    ELSE (v.n + 5 * Pow10(v.e - 3)) \div Pow10(v.e - 2)

\* f"R$ {preco:,.2f}".replace(",", "X").replace(".", ",").replace("X", ".")
FormatBRL(v) ==
    LET c == Cents(v)
        us == "R$ " \o GroupThousands(NatToStr(c \div 100)) \o "."
              \o ZeroPad(NatToStr(c % 100), 2)
    IN  Replace(Replace(Replace(us, ",", "X"), ".", ","), "X", ".")

\* the body of the for loop of fetch_ads: one upstream object to a record
MapResult(obj) ==
    LET d == obj.d
        titulo == IF "title" \in DOMAIN d THEN d["title"] ELSE PyStr("")
        preco == PyOr(PyOr(Get(d, "price"), Get(d, "extracted_price")),
                      PyStr(""))
        preco_str == IF preco.t \in {"int", "float"}
                     THEN PyStr(FormatBRL(preco))
                     ELSE preco
    IN  Listing(titulo,
                preco_str,
                PyOr(PyOr(Get(d, "product_link"), Get(d, "link")), PyStr("")),
                PyOr(PyOr(Get(d, "source"), Get(d, "merchant")), PyStr("")),
                PyOr(PyOr(Get(d, "thumbnail"), Get(d, "image")), PyStr("")))

\* what the try block of fetch_ads ends in for the answer up: the mapped
\* records, or "raised" when any statement of the block raises
TryBlock(up) ==
    IF up.kind # "json" THEN [raised |-> TRUE, anuncios |-> <<>>]
    ELSE IF up.data.t # "dict" THEN [raised |-> TRUE, anuncios |-> <<>>]
    ELSE LET results == IF "shopping_results" \in DOMAIN up.data.d
                        THEN up.data.d["shopping_results"]
                        ELSE [t |-> "list", v |-> <<>>]
         IN  IF results.t # "list" THEN [raised |-> TRUE, anuncios |-> <<>>]
             ELSE IF \E i \in 1..Len(results.v) : results.v[i].t # "dict"
                  THEN [raised |-> TRUE, anuncios |-> <<>>]
                  ELSE [raised |-> FALSE,
                        anuncios |-> [i \in 1..Len(results.v) |->
                                        MapResult(results.v[i])]]

\* the mutant of fetch_ads: an empty result list is returned as it is
FetchAdsNoEmptyFallback(q, key, serpapi_key, up) ==
    LET chave == PyOr(key, PyStr(serpapi_key)) IN
    IF ~Truthy(chave) THEN [ret |-> SampleData, http |-> <<>>]
    ELSE LET got == TryBlock(up)
             req == [url |-> SERPAPI_ENDPOINT, q |-> q, api_key |-> chave]
         IN  IF got.raised
             THEN [ret |-> SampleData, http |-> <<req>>]
             ELSE [ret |-> got.anuncios, http |-> <<req>>]

\* the mutant of fetch_ads: the records mapped before an error are kept
\* and the sample records are added to them
FetchAdsPartial(q, key, serpapi_key, up) ==
    LET chave == PyOr(key, PyStr(serpapi_key)) IN
    IF ~Truthy(chave) THEN [ret |-> SampleData, http |-> <<>>]
    ELSE LET got == TryBlock(up)
             req == [url |-> SERPAPI_ENDPOINT, q |-> q, api_key |-> chave]
             bad == up.kind = "json" /\ up.data.t = "dict"
                    /\ "shopping_results" \in DOMAIN up.data.d
                    /\ up.data.d["shopping_results"].t = "list"
             rs == up.data.d["shopping_results"].v
             first == CHOOSE i \in 1..Len(rs) : rs[i].t # "dict"
                         /\ \A j \in 1..(i - 1) : rs[j].t = "dict"
         IN  IF got.raised /\ bad
             THEN [ret |-> [i \in 1..(first - 1) |-> MapResult(rs[i])]
                           \o SampleData,
                   http |-> <<req>>]
             ELSE IF got.raised \/ Len(got.anuncios) = 0
                  THEN [ret |-> SampleData, http |-> <<req>>]
                  ELSE [ret |-> got.anuncios, http |-> <<req>>]

\* fetch_ads(term, api_key): the returned records and the requests made
FetchAds(q, key, serpapi_key, up) ==
    LET chave == PyOr(key, PyStr(serpapi_key)) IN
    IF ~Truthy(chave) THEN [ret |-> SampleData, http |-> <<>>]
    ELSE LET got == TryBlock(up)
             req == [url |-> SERPAPI_ENDPOINT, q |-> q, api_key |-> chave]
         IN  IF got.raised \/ Len(got.anuncios) = 0
             THEN [ret |-> SampleData, http |-> <<req>>]
             ELSE [ret |-> got.anuncios, http |-> <<req>>]

-----------------------------------------------------------------------------
(* main.py *)

RECURSIVE JoinWords(_)
JoinWords(ws) ==
    IF Len(ws) = 0 THEN ""
    ELSE IF Len(ws) = 1 THEN ws[1]
    ELSE ws[1] \o " " \o JoinWords(Tail(ws))

\* termo = " ".join(sys.argv[1:]).strip() or "geladeira"
Termo(args) ==
    LET t == Strip(JoinWords(args), Whitespace)
    IN  IF t = "" THEN "geladeira" ELSE t

TopN == 20

\* dict.get(key, "")
GetOrEmpty(d, k) == IF k \in DOMAIN d THEN d[k] ELSE PyStr("")

\* print_top(items, n): the ranked lines, as (rank, titulo, preco, loja)
PrintTop(its, n) ==
    [i \in 1..Min(n, Len(its)) |->
       <<i, GetOrEmpty(its[i], "titulo"), GetOrEmpty(its[i], "preco"),
         GetOrEmpty(its[i], "loja")>>]

-----------------------------------------------------------------------------
(* Inputs of the bounded model *)

\* all sequences over S of length 0..n
RECURSIVE SeqsUpTo(_, _)
SeqsUpTo(S, n) ==
    IF n = 0 THEN {<<>>}
    ELSE LET shorter == SeqsUpTo(S, n - 1) IN
         shorter \cup {Append(q, x) : q \in {r \in shorter : Len(r) = n - 1},
                                      x \in S}

RawPath == "anuncios.csv"

SortedPath == "anuncios_ordenados.csv"

NoFiles == [p \in {} |-> <<>>]

NoDir == [exists |-> FALSE, files |-> [f \in {} |-> ""]]

BaseListing ==
    Listing(PyStr("Geladeira A"), PyStr("R$ 1.899,00"),
            PyStr("https://loja.example/p"), PyStr("Loja 1"),
            PyStr("https://img.example/1.jpg"))

StorePrices == {"R$ 1.899,00", "R$ 10,00", "consultar", "5", "3"}

\* records that differ in price, two records that tie with another one,
\* and records with one field empty or made of digits only
StoreRecords ==
    {[BaseListing EXCEPT !.preco = PyStr(p)] : p \in StorePrices}
    \cup {[BaseListing EXCEPT !.titulo = PyStr("Geladeira B"),
                              !.preco = PyStr(p)] : p \in {"R$ 10,00", "3"}}
    \cup {[BaseListing EXCEPT !.preco = PyStr("")],
          [BaseListing EXCEPT !.titulo = PyStr("12")],
          [BaseListing EXCEPT !.url = PyStr("")],
          [BaseListing EXCEPT !.imagem = PyStr("")]}

\* the target path is missing, or holds an earlier table
StoreFiles ==
    {NoFiles,
     [p \in {RawPath} |-> <<"titulo,preco,url,loja,imagem",
                            "Fogao,\"R$ 799,90\",https://loja.example/f,Loja 9,">>]}

IdleStore ==
    /\ ret = <<>> /\ err = "none"

IdleDownload ==
    /\ outs = <<>> /\ imgdir = NoDir /\ writes = <<>>

IdleFetch ==
    /\ env = PyNone /\ api_key = PyNone /\ term = "" /\ http = <<>>
    /\ upstream = [kind |-> "none"]

IdleMain ==
    /\ argv = <<>> /\ trace = <<>> /\ stdout = <<>>

-----------------------------------------------------------------------------
(* The tabular store on its own: save_to_csv, then load_and_sort_by_price *)

InitStore ==
    /\ pc = "start"
    /\ items \in SeqsUpTo(StoreRecords, MaxRows)
    /\ tie \in TieOrders
    /\ fs \in StoreFiles
    /\ IdleStore /\ IdleDownload /\ IdleFetch /\ IdleMain

StoreSave ==
    /\ pc = "start"
    /\ LET r == SaveToCsv(items, RawPath, fs) IN
         /\ fs' = r.fs
         /\ err' = r.err
         /\ pc' = IF r.err = "none" THEN "saved" ELSE "raised"
    /\ UNCHANGED <<items, tie, ret, outs, imgdir, writes, http, env, api_key,
                   term, upstream, argv, trace, stdout>>

StoreLoad ==
    /\ pc = "saved"
    /\ LET r == LoadAndSortByPrice(RawPath, fs, tie) IN
         /\ ret' = r.ret
         /\ err' = r.err
         /\ pc' = IF r.err = "none" THEN "loaded" ELSE "raised"
    /\ UNCHANGED <<items, tie, fs, outs, imgdir, writes, http, env, api_key,
                   term, upstream, argv, trace, stdout>>

NextStore == StoreSave \/ StoreLoad

SpecStore == InitStore /\ [][NextStore]_vars

-----------------------------------------------------------------------------
(* download_images on its own *)

LongTitle == "Geladeira Electrolux Frost Free Inverse 454 litros Inox Bivolt "

Image1 == PyStr("https://img.example/1.jpg")

\* two titles with the same slug, an empty title, a title of punctuation
\* in a record without image field, two long titles that differ after the
\* 60th character, and a record without title
DlRecords ==
    {[titulo |-> PyStr("Geladeira Consul"), imagem |-> Image1],
     [titulo |-> PyStr("Geladeira, Consul!"), imagem |-> Image1],
     [titulo |-> PyStr(""), imagem |-> PyStr("")],
     [titulo |-> PyStr("?!")],
     [titulo |-> PyStr(LongTitle \o "A"), imagem |-> Image1],
     [titulo |-> PyStr(LongTitle \o "B"), imagem |-> PyStr("")],
     [imagem |-> PyStr("https://img.example/2.jpg")]}

\* the directory is missing, or holds a file of an earlier run
DlDirs ==
    {NoDir,
     [exists |-> TRUE, files |-> [f \in {"Geladeira_Consul.jpg"} |-> "OLD"]]}

InitDownload ==
    /\ pc = "start"
    /\ items \in SeqsUpTo(DlRecords, MaxItems)
    /\ outs \in OutcomeSeqs(items, OutPeriod)
    /\ imgdir \in DlDirs
    /\ writes = <<>>
    /\ tie = "kept" /\ fs = NoFiles
    /\ IdleStore /\ IdleFetch /\ IdleMain

DownloadRun ==
    /\ pc = "start"
    /\ LET r == DownloadImages(items, outs, imgdir) IN
         /\ imgdir' = [exists |-> r.exists, files |-> r.files]
         /\ writes' = r.writes
         /\ http' = r.http
         /\ err' = r.err
         /\ pc' = IF r.err = "none" THEN "done" ELSE "raised"
    /\ UNCHANGED <<items, tie, fs, ret, outs, env, api_key, term, upstream,
                   argv, trace, stdout>>

NextDownload == DownloadRun

SpecDownload == InitDownload /\ [][NextDownload]_vars

-----------------------------------------------------------------------------
(* fetch_ads on its own *)

JsonDict(d) == [t |-> "dict", d |-> d]

JsonList(v) == [t |-> "list", v |-> v]

\* upstream results: one with text fields, one with a numeric price and
\* the alternative field names, one with no field, one that is not an object
ResultObjects ==
    {JsonDict([title |-> PyStr("Geladeira Brastemp 375 litros"),
               price |-> PyStr("R$ 2.199,00"),
               product_link |-> PyStr("https://loja.example/p1"),
               source |-> PyStr("Loja 1"),
               thumbnail |-> PyStr("https://img.example/1.jpg")]),
     JsonDict([title |-> PyStr("Geladeira Consul 340 litros"),
               extracted_price |-> PyFloat(123456, 2),
               link |-> PyStr("https://loja.example/p2"),
               merchant |-> PyStr("Loja 2"),
               image |-> PyStr("https://img.example/2.jpg")]),
     JsonDict([x \in {} |-> PyNone]),
     PyStr("oops")}

\* what the one request to the search API can end in
Upstreams ==
    {[kind |-> "transport"], [kind |-> "status"], [kind |-> "badjson"],
     [kind |-> "json", data |-> JsonList(<<>>)],
     [kind |-> "json", data |-> JsonDict([x \in {} |-> PyNone])],
     [kind |-> "json", data |-> JsonDict([shopping_results |-> PyNone])]}
    \cup {[kind |-> "json",
           data |-> JsonDict([shopping_results |-> JsonList(r)])] :
            r \in SeqsUpTo(ResultObjects, MaxResults)}

Envs == {PyNone, PyStr(""), PyStr("  "), PyStr(" env-key ")}

ApiKeys == {PyNone, PyStr(""), PyStr("arg-key")}

Terms == {"geladeira", "smart tv"}

InitFetch ==
    /\ pc = "start"
    /\ term \in Terms
    /\ api_key \in ApiKeys
    /\ env \in Envs
    /\ upstream \in Upstreams
    /\ http = <<>>
    /\ items = <<>> /\ tie = "kept" /\ fs = NoFiles
    /\ IdleStore /\ IdleDownload /\ IdleMain

FetchRun ==
    /\ pc = "start"
    /\ LET r == FetchAds(term, api_key, SerpapiKey(env), upstream) IN
         /\ ret' = r.ret
         /\ http' = r.http
    /\ pc' = "done"
    /\ UNCHANGED <<items, tie, fs, err, outs, imgdir, writes, env, api_key,
                   term, upstream, argv, trace, stdout>>

NextFetch == FetchRun

SpecFetch == InitFetch /\ [][NextFetch]_vars

-----------------------------------------------------------------------------
(* main: items is anuncios, ret is anuncios_ordenados *)

Argvs == {<<>>, <<"smart", "tv ">>}

MainEnvs == {PyNone, PyStr(" env-key ")}

\* answers of the search API tried in main: a transport error, an empty
\* result list, one result, two results, a result that cannot be mapped
MainUpstreams ==
    {[kind |-> "transport"]}
    \cup {[kind |-> "json",
           data |-> JsonDict([shopping_results |-> JsonList(r)])] :
            r \in {<<>>,
                   <<JsonDict([title |-> PyStr("Geladeira Brastemp 375 litros"),
                               price |-> PyStr("R$ 2.199,00"),
                               thumbnail |-> PyStr("https://img.example/1.jpg")])>>,
                   <<JsonDict([title |-> PyStr("Geladeira Consul 340 litros"),
                               extracted_price |-> PyFloat(123456, 2),
                               image |-> PyStr("https://img.example/2.jpg")]),
                     JsonDict([title |-> PyStr("Geladeira, Consul 340 litros"),
                               price |-> PyStr("consultar")])>>,
                   <<JsonDict([title |-> PyStr("Geladeira Consul 340 litros")]),
                     PyStr("oops")>>}}

InitMain ==
    /\ pc = "start"
    /\ argv \in Argvs
    /\ env \in MainEnvs
    /\ upstream = [kind |-> "none"]
    /\ api_key = PyNone /\ term = "" /\ http = <<>>
    /\ items = <<>> /\ tie = "kept" /\ fs = NoFiles
    /\ trace = <<>> /\ stdout = <<>>
    /\ IdleStore /\ IdleDownload

\* anuncios = fetch_ads(termo), and the early return when it is empty
MainFetch ==
    /\ pc = "start"
    /\ \E up \in MainUpstreams :
         LET r == FetchAds(Termo(argv), PyNone, SerpapiKey(env), up) IN
           /\ upstream' = up
           /\ term' = Termo(argv)
           /\ items' = r.ret
           /\ http' = r.http
           /\ pc' = IF Len(r.ret) = 0 THEN "exit" ELSE "fetched"
    /\ trace' = Append(trace, "fetch")
    /\ UNCHANGED <<tie, fs, ret, err, outs, imgdir, writes, env, api_key,
                   argv, stdout>>

\* save_to_csv(anuncios, "anuncios.csv")
MainSaveRaw ==
    /\ pc = "fetched"
    /\ LET r == SaveToCsv(items, RawPath, fs) IN
         /\ fs' = r.fs
         /\ err' = r.err
         /\ pc' = IF r.err = "none" THEN "saved_raw" ELSE "raised"
    /\ trace' = Append(trace, "write_raw")
    /\ UNCHANGED <<items, tie, ret, outs, imgdir, writes, http, env, api_key,
                   term, upstream, argv, stdout>>

\* download_images(anuncios, directory="imagens")
MainDownload ==
    /\ pc = "saved_raw"
    /\ \E o \in OutcomeSeqs(items, MainOutPeriod) :
         LET r == DownloadImages(items, o, imgdir) IN
           /\ outs' = o
           /\ imgdir' = [exists |-> r.exists, files |-> r.files]
           /\ writes' = r.writes
           /\ http' = http \o r.http
           /\ err' = r.err
           /\ pc' = IF r.err = "none" THEN "downloaded" ELSE "raised"
    /\ trace' = Append(trace, "download")
    /\ UNCHANGED <<items, tie, fs, ret, env, api_key, term, upstream, argv,
                   stdout>>

\* the mutant of MainLoadSort: the read-back runs in place of the download
MainLoadSortEarly ==
    /\ pc = "saved_raw"
    /\ \E o \in TieOrders :
         LET r == LoadAndSortByPrice(RawPath, fs, o) IN
           /\ tie' = o
           /\ ret' = r.ret
           /\ err' = r.err
           /\ pc' = IF r.err = "none" THEN "sorted" ELSE "raised"
    /\ trace' = Append(trace, "read_sort")
    /\ UNCHANGED <<items, fs, outs, imgdir, writes, http, env, api_key, term,
                   upstream, argv, stdout>>

\* anuncios_ordenados = load_and_sort_by_price("anuncios.csv")
MainLoadSort ==
    /\ pc = "downloaded"
    /\ \E o \in TieOrders :
         LET r == LoadAndSortByPrice(RawPath, fs, o) IN
           /\ tie' = o
           /\ ret' = r.ret
           /\ err' = r.err
           /\ pc' = IF r.err = "none" THEN "sorted" ELSE "raised"
    /\ trace' = Append(trace, "read_sort")
    /\ UNCHANGED <<items, fs, outs, imgdir, writes, http, env, api_key, term,
                   upstream, argv, stdout>>

\* save_to_csv(anuncios_ordenados, "anuncios_ordenados.csv")
MainSaveSorted ==
    /\ pc = "sorted"
    /\ LET r == SaveToCsv(ret, SortedPath, fs) IN
         /\ fs' = r.fs
         /\ err' = r.err
         /\ pc' = IF r.err = "none" THEN "saved_sorted" ELSE "raised"
    /\ trace' = Append(trace, "write_sorted")
    /\ UNCHANGED <<items, tie, ret, outs, imgdir, writes, http, env, api_key,
                   term, upstream, argv, stdout>>

\* print_top(anuncios_ordenados, n=20)
MainPrint ==
    /\ pc = "saved_sorted"
    /\ stdout' = PrintTop(ret, TopN)
    /\ trace' = Append(trace, "print")
    /\ pc' = "done"
    /\ UNCHANGED <<items, tie, fs, ret, err, outs, imgdir, writes, http, env,
                   api_key, term, upstream, argv>>

NextMain ==
    \/ MainFetch
    \/ MainSaveRaw
    \/ MainDownload
    \/ MainLoadSort
    \/ MainSaveSorted
    \/ MainPrint

SpecMain == InitMain /\ [][NextMain]_vars

-----------------------------------------------------------------------------
(* Properties of the tabular store, checked under SpecStore *)

\* the bijections of 1..n
Perms(n) == {p \in [1..n -> 1..n] : \A i, j \in 1..n : p[i] = p[j] => i = j}

\* the rows of the stored file as read_csv delivers them, in file order
FileRows == ReadCsv(fs[RawPath])

\* the price text of the i-th row of the stored file
FilePrice(i) == ParseLine(fs[RawPath][i + 1])[2]

\* the key the code derives for each row of the stored file
FileKeys == [i \in 1..Len(FileRows) |-> PriceToFloat(FileRows[i]["preco"])]

\* the key of a price text as the specification defines it
TextKey(text) ==
    IF ~HasDigit(text) THEN KeyInf ELSE PriceToFloat(PyStr(text))

\* C1: after save_to_csv(records, path) and load_and_sort_by_price(path),
\* the returned records are, ignoring order, the records written: same
\* five field names, same values, same types
C1_RoundTrip ==
    pc = "loaded" =>
        /\ Len(ret) = Len(items)
        /\ \A i \in 1..Len(items) :
              Cardinality({j \in 1..Len(ret) : ret[j] = items[i]})
              = Cardinality({j \in 1..Len(items) : items[j] = items[i]})

\* C2: the sort is stable: of two rows of the file with equal derived keys,
\* the one that comes first in the file comes first in the result
C2_StableSort ==
    pc = "loaded" =>
        \E p \in Perms(Len(FileRows)) :
            /\ \A k \in 1..Len(ret) : ret[k] = FileRows[p[k]]
            /\ \A k, l \in 1..Len(ret) :
                  (k < l /\ KeyEQ(FileKeys[p[k]], FileKeys[p[l]]))
                  => p[k] < p[l]

\* C3: the result is in non-decreasing order of the key of the price text,
\* so every row whose price has a digit precedes every row whose price
\* has none
C3_SortedByTextKey ==
    pc = "loaded" =>
        \E p \in Perms(Len(FileRows)) :
            /\ \A k \in 1..Len(ret) : ret[k] = FileRows[p[k]]
            /\ \A k, l \in 1..Len(ret) :
                  k < l => ~KeyLT(TextKey(FilePrice(p[l])),
                                  TextKey(FilePrice(p[k])))

\* C4: save_to_csv on an empty sequence raises the empty-input error and
\* leaves every file as it was, present or absent
C4_EmptySaveRaises ==
    [][(pc = "start" /\ Len(items) = 0)
       => (err' = "ValueError" /\ pc' = "raised" /\ fs' = fs)]_vars

C4_Witness ==
    /\ pc = "raised"
    /\ Len(items) = 0
    /\ err = "ValueError"
    /\ RawPath \in DOMAIN fs
    /\ Len(fs[RawPath]) = 2

-----------------------------------------------------------------------------
(* Properties of download_images, checked under SpecDownload *)

\* the image field of the i-th record is empty or missing
NoImage(i) == ~Truthy(Get(items[i], "imagem"))

\* the image request of the i-th record was made and failed
RequestFailed(i) == ~NoImage(i) /\ outs[i].kind # "ok"

\* what the i-th record leaves in its file
Written(i) ==
    IF NoImage(i) \/ outs[i].kind # "ok" THEN "" ELSE outs[i].body

\* C5: whatever requests fail, download_images does not raise, processes
\* every record in input order and writes a zero-byte file for each
\* failed record
C5_FailuresAbsorbed ==
    pc # "start" =>
        /\ pc = "done"
        /\ err = "none"
        /\ Len(writes) = Len(items)
        /\ \A i \in 1..Len(items) :
              /\ writes[i].name = FileName(items[i], i)
              /\ RequestFailed(i) => writes[i].content = ""
              /\ ~RequestFailed(i) => writes[i].content = Written(i)

C5_Witness ==
    /\ pc = "done"
    /\ Len(items) = 2
    /\ RequestFailed(1)
    /\ outs[1].kind = "timeout"
    /\ ~NoImage(2) /\ outs[2].kind = "ok"
    /\ writes[1].content = ""
    /\ writes[2].content = "JFIF"

\* C6: a record without image URL gets a zero-byte file and no request;
\* a record with an image URL gets exactly one GET
C6_RequestsPerRecord ==
    pc # "start" =>
        \A i \in 1..Len(items) :
            LET asked == {k \in 1..Len(http) : http[k].rec = i} IN
            /\ NoImage(i) =>
                  /\ asked = {}
                  /\ i <= Len(writes)
                  /\ writes[i] = [name |-> FileName(items[i], i),
                                  content |-> ""]
            /\ ~NoImage(i) =>
                  /\ Cardinality(asked) = 1
                  /\ \A k \in asked : http[k].url = items[i]["imagem"]

C6_Witness ==
    /\ pc = "done"
    /\ Len(items) = 2
    /\ "imagem" \notin DOMAIN items[1]
    /\ RequestFailed(2)
    /\ Len(http) = 1
    /\ imgdir.files[FileName(items[1], 1)] = ""

\* C9: after download_images a file exists at the name of every record,
\* it holds what the last record with that name left, and there are as
\* many files written as distinct names
C9_LastWriteWins ==
    pc # "start" =>
        LET n == Len(items)
            name == Eager([i \in 1..n |-> FileName(items[i], i)])
            names == {name[i] : i \in 1..n}
            last(nm) == CHOOSE i \in 1..n :
                          /\ name[i] = nm
                          /\ \A j \in (i + 1)..n : name[j] # nm
        IN  /\ names \subseteq DOMAIN imgdir.files
            /\ \A nm \in names : imgdir.files[nm] = Written(last(nm))
            /\ {writes[k].name : k \in 1..Len(writes)} = names

C9_Witness ==
    /\ pc = "done"
    /\ Len(items) = 2
    /\ Get(items[1], "titulo") # Get(items[2], "titulo")
    /\ FileName(items[1], 1) = FileName(items[2], 2)
    /\ Written(1) = "JFIF"
    /\ RequestFailed(2)
    /\ imgdir.files[FileName(items[2], 2)] = ""
    /\ Cardinality({writes[k].name : k \in 1..Len(writes)}) = 1

-----------------------------------------------------------------------------
(* Properties of fetch_ads, checked under SpecFetch *)

NoCredential == ~Truthy(api_key) /\ SerpapiKey(env) = ""

ResultList(up) ==
    IF /\ up.kind = "json"
       /\ up.data.t = "dict"
       /\ "shopping_results" \in DOMAIN up.data.d
       /\ up.data.d["shopping_results"].t = "list"
    THEN up.data.d["shopping_results"].v
    ELSE <<>>

HasResultList(up) ==
    /\ up.kind = "json"
    /\ up.data.t = "dict"
    /\ "shopping_results" \in DOMAIN up.data.d
    /\ up.data.d["shopping_results"].t = "list"

\* a transport error, a non-2xx status, an unparseable body, a result that
\* cannot be mapped, or an empty result array
Degraded(up) ==
    \/ up.kind \in {"transport", "status", "badjson"}
    \/ /\ HasResultList(up)
       /\ \/ Len(ResultList(up)) = 0
          \/ \E i \in 1..Len(ResultList(up)) : ResultList(up)[i].t # "dict"

\* C7: without credential fetch_ads returns the 25 sample records and asks
\* nothing; with a credential and a degraded answer it returns the same 25
\* records after one request; mapped and sample records are never mixed
C7_SampleOnDegrade ==
    pc = "done" =>
        /\ Len(http) <= 1
        /\ NoCredential => (ret = SampleData /\ Len(ret) = 25 /\ http = <<>>)
        /\ (~NoCredential /\ Degraded(upstream))
              => (ret = SampleData /\ Len(ret) = 25 /\ Len(http) = 1)
        /\ \/ ret = SampleData
           \/ /\ HasResultList(upstream)
              /\ Len(ret) = Len(ResultList(upstream))
              /\ \A i \in 1..Len(ret) :
                    /\ ResultList(upstream)[i].t = "dict"
                    /\ ret[i] = MapResult(ResultList(upstream)[i])

C7_Witness ==
    /\ pc = "done"
    /\ ~NoCredential
    /\ HasResultList(upstream)
    /\ Len(ResultList(upstream)) = 2
    /\ ResultList(upstream)[1].t = "dict"
    /\ ResultList(upstream)[2].t # "dict"
    /\ ret = SampleData
    /\ Len(http) = 1

-----------------------------------------------------------------------------
(* Properties of main, checked under SpecMain *)

MainSteps ==
    <<"fetch", "write_raw", "download", "read_sort", "write_sorted", "print">>

\* C8: main performs fetch, raw write, image download, read-back and sort,
\* sorted write, print in this order, each once; the images come from the
\* raw sequence; the raw file is not rewritten once the download has
\* started and the sorted file exists only after the read-back; an empty
\* fetch ends the run with no file and no image
C8_StrictOrder ==
    /\ Len(trace) <= Len(MainSteps)
    /\ trace = SubSeq(MainSteps, 1, Len(trace))
    /\ Len(trace) >= 3 =>
          /\ fs[RawPath] = ToCsv(items)
          /\ Len(writes) = Len(items)
          /\ \A i \in 1..Len(items) : writes[i].name = FileName(items[i], i)
    /\ Len(trace) < 3 => (writes = <<>> /\ ~imgdir.exists)
    /\ Len(trace) < 2 => fs = NoFiles
    /\ SortedPath \in DOMAIN fs => (Len(trace) >= 5 /\ fs[SortedPath] = ToCsv(ret))
    /\ pc = "exit" => (trace = <<"fetch">> /\ fs = NoFiles /\ writes = <<>>)
    /\ pc = "done" <=> Len(trace) = Len(MainSteps)

C8_Witness ==
    /\ pc = "done"
    /\ trace = MainSteps
    /\ Len(items) = 25
    /\ ret # items
    /\ Len(stdout) = 20

\* C10: fetch_ads never returns an empty sequence, so main never takes
\* the early exit, and neither save_to_csv call raises the empty-input
\* error: the sorted sequence has as many rows as the raw one
C10_NeverEmpty ==
    /\ pc # "exit"
    /\ err # "ValueError"
    /\ pc # "start" => Len(items) > 0
    /\ pc \in {"sorted", "saved_sorted", "done"} => Len(ret) = Len(items)

C10_Witness ==
    /\ pc = "done"
    /\ SerpapiKey(env) # ""
    /\ HasResultList(upstream)
    /\ Len(ResultList(upstream)) = 0
    /\ Len(http) > 0
    /\ Len(ret) = 25
    /\ SortedPath \in DOMAIN fs

====
